---- MODULE Spec2Model ----
(***************************************************************************)
(* background-drifter: the pointer-position core.                          *)
(*                                                                         *)
(*   EventEmitter      src/src/assets/ts/utils/eventEmitter.ts             *)
(*   MouseTracker      src/unnamed/part_015 (utils/mouseTracker.ts)        *)
(*   ParallaxBackground src/unnamed/part_009 (features/parallaxBackground) *)
(*   MouseParallax     src/src/typescript/features/parallaxMouse.ts        *)
(*   intersectionObserver src/src/assets/ts/utils/intersectionObserver.ts  *)
(*                                                                         *)
(* Positions are kept in hundredths (the tracker rounds to two decimals),  *)
(* so the normalized value 0.4 is the integer 40.                          *)
(***************************************************************************)
EXTENDS Integers, Sequences, FiniteSets, TLC

VARIABLES
    pc,             \* position in the page's module evaluation, then "running"
    havePointer,    \* utils/havePointer: matchMedia('(pointer:fine)').matches
    dom,            \* which of the queried elements the document holds
    viewport,       \* window.innerWidth / window.innerHeight
    events,         \* EventEmitter.events: Map<string, EventCallback[]>
    calls,          \* handler invocations made by the last operation, in order
    overlayElement, \* MouseTracker.overlayElement: "null" or "attached"
    timerPending,   \* the bootstrap setTimeout(returnMousePosition) is scheduled
    moveListener,   \* window 'pointermove' listener attached
    mousePosition,  \* MouseTracker.mousePosition, in hundredths
    firstEmitted,   \* name of the first event the tracker emitted, or "none"
    movesEmitted,   \* number of 'mousemove' events the tracker has emitted
    initSources,    \* for each 'init' emitted: which source emitted it
    lastEmit,       \* the tracker's last emit: name, payload, return value
    hostMoves,      \* pointermove events the host has dispatched to window
    startTimers,    \* ParallaxBackground: pending setTimeout(..., 750) closures
    bg,             \* ParallaxBackground fields
    mp,             \* MouseParallax fields
    busOps,         \* the last two EventEmitter API calls made by a client
    onceCalls,      \* per oneTimeListener closure: invocations of its callback
    kept,           \* the payload object a handler kept, and x, y as it got them
    smoothing       \* the frame-based smoothing consumer, and the host's
                    \* pending animation-frame callbacks

vars == << pc, havePointer, dom, viewport, events, calls, overlayElement,
           timerPending, moveListener, mousePosition, firstEmitted,
           movesEmitted, initSources, lastEmit, hostMoves, startTimers, bg, mp,
           busOps, onceCalls, kept, smoothing >>

trackerVars == << overlayElement, timerPending, moveListener, mousePosition,
                  firstEmitted, movesEmitted, initSources, lastEmit >>

consumerVars == << startTimers, bg, mp >>

(***************************************************************************)
(* Bounds of the model.                                                    *)
(***************************************************************************)
MaxMoves == 2        \* pointermove events the host dispatches
MaxListeners == 3    \* handlers registered for one event name by a client
MaxOnce == 1         \* live oneTimeListener closures per event name and callback
MaxSubs == 2         \* handlers an API caller keeps registered in all
MaxWidth == 6        \* viewport widths of which every pixel column is tried
MaxHeight == 2       \* viewport heights of which every pixel row is tried
MaxEntries == 2      \* entries the host observer delivers in one callback

(***************************************************************************)
(* EventEmitter                                                            *)
(***************************************************************************)
NoEvents == [e \in {} |-> << >>]

\* this.events.get(eventName) || []
Listeners(ev, eventName) ==
    IF eventName \in DOMAIN ev THEN ev[eventName] ELSE << >>

\* Array.prototype.includes
Includes(s, x) == \E i \in 1..Len(s) : s[i] = x

\* Array.prototype.filter((listener) => listener !== callback)
RECURSIVE FilterOut(_, _)
FilterOut(s, x) ==
    IF s = << >> THEN << >>
    ELSE IF Head(s) = x THEN FilterOut(Tail(s), x)
         ELSE << Head(s) >> \o FilterOut(Tail(s), x)

\* A plausible slip: a callback that is registered is not registered again
on_Unique(ev, eventName, callback) ==
    IF Includes(Listeners(ev, eventName), callback) THEN ev
    ELSE (eventName :> Append(Listeners(ev, eventName), callback)) @@ ev

on(ev, eventName, callback) ==
    (eventName :> Append(Listeners(ev, eventName), callback)) @@ ev

\* A plausible slip: listeners.splice(listeners.indexOf(callback), 1), which
\* removes the last listener when the callback is not found (index -1)
off_Splice(ev, eventName, callback) ==
    IF eventName \notin DOMAIN ev THEN ev
    ELSE LET listeners == ev[eventName]
             found == { i \in DOMAIN listeners : listeners[i] = callback }
             index == IF found = {} THEN Len(listeners)
                      ELSE CHOOSE i \in found : \A j \in found : i <= j
         IN  (eventName :> [i \in 1..(Len(listeners) - 1) |->
                               IF i < index THEN listeners[i]
                               ELSE listeners[i + 1]]) @@ ev

\* A plausible slip: the callback filtered out of the list of every event
off_EveryName(ev, eventName, callback) ==
    IF eventName \notin DOMAIN ev THEN ev
    ELSE [e \in DOMAIN ev |-> FilterOut(ev[e], callback)]

off(ev, eventName, callback) ==
    IF eventName \notin DOMAIN ev THEN ev
    ELSE (eventName :> FilterOut(ev[eventName], callback)) @@ ev

\* A plausible slip: toggle that only ever subscribes
toggle_AlwaysOn(ev, eventName, callback) ==
    on(ev, eventName, callback)

toggle(ev, eventName, callback) ==
    LET listeners == Listeners(ev, eventName)
        hasThisCallback == Includes(listeners, callback)
    IN  IF hasThisCallback THEN off(ev, eventName, callback)
        ELSE on(ev, eventName, callback)

\* Arguments the type annotations exclude and the compiled code still takes:
\* an event name that is not a string (the number 42, a Map key like any
\* other) and a callback that is not a function (null)
NotAString == "42"
NotAFunction == "null"

\* typeof eventName === 'string', typeof callback === 'function'
IsString(eventName) == eventName # NotAString
IsFunction(callback) == callback # NotAFunction

\* The closures once() creates: oneTimeListener closes over eventName and
\* callback; id tells apart the closures of two calls with equal arguments.
OnceEvents == { "init" }
OnceCallbacks == { "h1", "hThrow", "hReemit" }
Closures == [eventName : OnceEvents, callback : OnceCallbacks, id : 1..MaxOnce]

oneTimeListener(c) ==
    "oneTimeListener" \o ToString(c.id) \o "(" \o c.eventName \o ","
        \o c.callback \o ")"

OneTimeListeners == { oneTimeListener(c) : c \in Closures }

ClosureOf(listener) == CHOOSE c \in Closures : oneTimeListener(c) = listener

\* The closure a call of once(eventName, callback) creates: a new function
\* object, so one that no handler list holds
FreeClosures(ev, eventName, callback) ==
    { c \in Closures :
        /\ c.eventName = eventName
        /\ c.callback = callback
        /\ ~Includes(Listeners(ev, eventName), oneTimeListener(c)) }

NewClosure(ev, eventName, callback) ==
    CHOOSE c \in FreeClosures(ev, eventName, callback) :
        \A d \in FreeClosures(ev, eventName, callback) : c.id <= d.id

\* A plausible slip: the callback itself registered, no wrapper around it
once_Plain(ev, eventName, callback) == on(ev, eventName, callback)

\* once(eventName, callback): this.on(eventName, oneTimeListener)
once(ev, eventName, callback) ==
    on(ev, eventName, oneTimeListener(NewClosure(ev, eventName, callback)))

(***************************************************************************)
(* Arithmetic helpers                                                      *)
(***************************************************************************)
\* Number.prototype.toFixed: nearest, an exact tie going away from zero.
\* num/den with den > 0, rounded to an integer.
RoundHalfAway(num, den) ==
    IF num >= 0 THEN (2 * num + den) \div (2 * den)
    ELSE -(((2 * (-num)) + den) \div (2 * den))

\* Math.round: nearest, an exact tie going towards +Infinity.
MathRound(num, den) == (2 * num + den) \div (2 * den)

(***************************************************************************)
(* The host: viewport sizes and pointer coordinates                        *)
(***************************************************************************)
Viewports == { [w |-> 4, h |-> 2], [w |-> 3, h |-> 2] }

\* clientX / clientY of the pointer events the host delivers: an inner point
\* and the bottom-right corner of the viewport
Pointers(vp) == { [x |-> 1, y |-> 1], [x |-> vp.w, y |-> vp.h] }

\* The elements a document can mark [mouse-parallax]
Elements == { "el1", "el2" }

\* A page without the frame-based smoothing consumer
NoSmoothing ==
    [currentBackgroundX |-> 0, currentBackgroundY |-> 0,
     targetBackgroundX |-> 0, targetBackgroundY |-> 0,
     animationFrameId |-> 0, frames |-> {}]

(***************************************************************************)
(* MouseTracker.calculateMovement (pixels -> hundredths of [-1, 1])        *)
(***************************************************************************)
\* A plausible slip: step 2 (centering) left out
Normalize_NoCenter(p, dim) == RoundHalfAway(200 * p, dim)

\* A plausible slip: step 3 (the factor 2) left out
Normalize_NoDouble(p, dim) == RoundHalfAway(100 * p - 50 * dim, dim)

\* A plausible slip: the decimals cut off (Math.trunc(n * 100) / 100)
Normalize_Truncate(p, dim) ==
    IF 200 * p >= 100 * dim THEN (200 * p - 100 * dim) \div dim
    ELSE -((100 * dim - 200 * p) \div dim)

\* percentage = p / dim; centered = percentage - 0.5; normalized = centered * 2;
\* parseFloat(normalized.toFixed(2))
Normalize(p, dim) == RoundHalfAway(200 * p - 100 * dim, dim)

\* A plausible slip: easing towards the pointer from the position kept
calculateMovement_Smoothed(x, y, vp) ==
    [x |-> (mousePosition.x + Normalize(x, vp.w)) \div 2,
     y |-> (mousePosition.y + Normalize(y, vp.h)) \div 2]

calculateMovement(x, y, vp) ==
    [x |-> Normalize(x, vp.w), y |-> Normalize(y, vp.h)]

(***************************************************************************)
(* ParallaxBackground                                                      *)
(***************************************************************************)
maxShiftPercent == 75

\* A plausible slip: the background following the pointer (no negation)
TargetInPx_SameSign(mouse, dim) == MathRound(mouse * maxShiftPercent * dim, 10000)

\* (mouse * maxShiftPercent / 100) * window.innerWidth, then -Math.round(...)
\* mouse is in hundredths, so the quotient is mouse * 75 * dim / 10000.
TargetInPx(mouse, dim) == -MathRound(mouse * maxShiftPercent * dim, 10000)

ParallaxBackground_calculateMovement(b, position, vp) ==
    [b EXCEPT !.targetBackgroundX = TargetInPx(position.x, vp.w),
              !.targetBackgroundY = TargetInPx(position.y, vp.h)]

\* this.setter?.x(...); this.setter?.y(...): the tween is external, the model
\* keeps the values handed to it.
animateBackgroundToTarget(b) ==
    IF b.setter
    THEN [b EXCEPT !.setX = b.targetBackgroundX, !.setY = b.targetBackgroundY]
    ELSE b

\* onMouseMove = ({x, y}) => { calculateMovement(x, y); animateBackgroundToTarget() }
onMouseMove(w, position) ==
    [w EXCEPT !.bg = animateBackgroundToTarget(
                        ParallaxBackground_calculateMovement(@, position, viewport))]

\* setStartPosition = (position) => { const {x, y} = position; setTimeout(..., 750) }
setStartPosition(w, position) ==
    [w EXCEPT !.startTimers = Append(@, [x |-> position.x, y |-> position.y]),
              !.bg.initCalls = @ + 1]

(***************************************************************************)
(* MouseParallax                                                           *)
(***************************************************************************)
followFactor == 20

\* A plausible slip: the sign inverted, as the background consumer does
animateVisibleElements_Inverted(m, position) ==
    [m EXCEPT !.target =
        [el \in Elements |->
            IF el \in m.visibleElements
            THEN [set |-> TRUE, x |-> -(position.x * followFactor),
                  y |-> -(position.y * followFactor)]
            ELSE m.target[el]],
              !.animated = m.visibleElements]

\* A plausible slip: this.elements.forEach in place of visibleElements
animateVisibleElements_All(m, position) ==
    [m EXCEPT !.target =
        [el \in Elements |->
            IF el \in m.observing
            THEN [set |-> TRUE, x |-> position.x * followFactor,
                  y |-> position.y * followFactor]
            ELSE m.target[el]],
              !.animated = m.observing]

\* animateVisibleElements({x, y}): x * 20, y * 20 to the setters of every
\* visible element (hundredths of a pixel, as the position is in hundredths);
\* animated is the set of elements whose setters this call has called
animateVisibleElements(m, position) ==
    [m EXCEPT !.target =
        [el \in Elements |->
            IF el \in m.visibleElements
            THEN [set |-> TRUE, x |-> position.x * followFactor,
                  y |-> position.y * followFactor]
            ELSE m.target[el]],
              !.animated = m.visibleElements]

(***************************************************************************)
(* Handlers: the callbacks registered on the tracker.  A handler maps the  *)
(* state the callbacks can reach (w) and the payload to the new state.     *)
(***************************************************************************)
\* Handlers of a caller of the API: h1 and h2 return at once; hThrow throws;
\* hReemit is (p) => { if (p.x !== 0) emitter.emit('init', {x: 0, y: 0}) },
\* a handler that publishes from inside its own invocation.
ClientHandlers == { "h1", "h2" }

\* An argument of emit is a JavaScript value: a position built for the call,
\* [x, y], or a reference to an object that lives on, here the one object
\* MouseTracker.mousePosition names.  A callback reads x and y through it.
MousePositionRef == [ref |-> "mousePosition"]

IsRef(position) == "ref" \in DOMAIN position

Deref(w, position) == IF IsRef(position) THEN w.mousePosition ELSE position

NothingKept == [held |-> FALSE, payload |-> [x |-> 0, y |-> 0],
                seen |-> [x |-> 0, y |-> 0]]

\* w.thrown is the exception in flight ("none": the call returned)
Thrown(w) == w.thrown # "none"

RECURSIVE Invoke(_, _, _), emit(_, _, _)

\* oneTimeListener = (...args) => { callback(...args); this.off(eventName,
\* oneTimeListener) }: off is reached when callback returned
InvokeOneTimeListener(listener, position, w) ==
    LET c == ClosureOf(listener)
        counted == [w EXCEPT !.onceCalls[listener] = IF @ < 2 THEN @ + 1 ELSE @]
        called == Invoke(c.callback, position, counted)
    IN  IF Thrown(called) THEN called
        ELSE [called EXCEPT !.events = off(@, c.eventName, listener)]

\* callback(...args): calling what is not a function throws a TypeError
\* before anything runs
\* The page's handlers take x and y out of the payload when they are called
\* (({ x, y }) => ..., const { x, y } = position).  hKeep is (p) => { kept =
\* p }, hMutate is (p) => { p.x = 0.5 }: handlers of another module that
\* subscribed to the exported mouseTracker.  hOff, hOn and hToggle call
\* off, on and toggle('init', h1) on the emitter that is invoking them.
Invoke(h, payload, w) ==
    LET position == Deref(w, payload)
        logged == [w EXCEPT !.calls = Append(@, << h, position >>)]
    IN  CASE ~IsFunction(h) -> [w EXCEPT !.thrown = "TypeError"]
          [] h = "setStartPosition" -> setStartPosition(logged, position)
          [] h = "onMouseMove" -> onMouseMove(logged, position)
          [] h = "animateVisibleElements_init" ->
                [logged EXCEPT !.mp = animateVisibleElements(@, position),
                               !.mp.initCalls = @ + 1]
          [] h = "animateVisibleElements_mousemove" ->
                [logged EXCEPT !.mp = animateVisibleElements(@, position)]
          [] h = "hThrow" -> [logged EXCEPT !.thrown = "Error"]
          [] h = "hReemit" ->
                IF position.x # 0
                THEN emit(logged, "init", [x |-> 0, y |-> 0]).w
                ELSE logged
          [] h = "hOff" -> [logged EXCEPT !.events = off(@, "init", "h1")]
          [] h = "hOn" -> [logged EXCEPT !.events = on(@, "init", "h1")]
          [] h = "hToggle" -> [logged EXCEPT !.events = toggle(@, "init", "h1")]
          [] h = "hKeep" ->
                [logged EXCEPT !.kept = [held |-> TRUE, payload |-> payload,
                                         seen |-> position]]
          [] h = "hMutate" ->
                IF IsRef(payload) THEN [logged EXCEPT !.mousePosition.x = 50]
                ELSE logged
          [] h \in OneTimeListeners -> InvokeOneTimeListener(h, position, logged)
          [] OTHER -> logged

\* A plausible slip: each callback isolated in a try / catch, the walk going on
RECURSIVE forEach_Isolated(_, _, _)
forEach_Isolated(handlers, position, w) ==
    IF handlers = << >> THEN w
    ELSE forEach_Isolated(Tail(handlers), position,
            [Invoke(Head(handlers), position, w) EXCEPT !.thrown = "none"])

\* handlers.forEach((callback) => callback(...args)): forEach walks the array
\* object it was called on, up to the length that array has when the walk
\* starts; an exception thrown by a callback ends the walk.
RECURSIVE forEach(_, _, _)
forEach(handlers, position, w) ==
    IF handlers = << >> \/ Thrown(w) THEN w
    ELSE forEach(Tail(handlers), position, Invoke(Head(handlers), position, w))

\* A plausible slip: the guard inverted to "some handler" loses the dispatch
emit_ReturnTrue(w, eventName, position) ==
    [ret |-> TRUE, w |-> forEach(Listeners(w.events, eventName), position, w)]

\* A plausible slip: walking the handlers from the last to the first
RECURSIVE forEachReversed(_, _, _)
forEachReversed(handlers, position, w) ==
    IF handlers = << >> THEN w
    ELSE forEachReversed(SubSeq(handlers, 1, Len(handlers) - 1), position,
                         Invoke(handlers[Len(handlers)], position, w))

emit_Reversed(w, eventName, position) ==
    LET handlers == Listeners(w.events, eventName)
    IN  IF Len(handlers) = 0 THEN [ret |-> FALSE, w |-> w]
        ELSE [ret |-> TRUE, w |-> forEachReversed(handlers, position, w)]

\* A plausible slip: a loop over this.events.get(eventName), read anew at
\* every index, in place of forEach on the array emit fetched
RECURSIVE forEachLive(_, _, _, _)
forEachLive(eventName, k, position, w) ==
    LET handlers == Listeners(w.events, eventName)
    IN  IF k > Len(handlers) \/ Thrown(w) THEN w
        ELSE forEachLive(eventName, k + 1, position,
                         Invoke(handlers[k], position, w))

emit_Live(w, eventName, position) ==
    IF Len(Listeners(w.events, eventName)) = 0 THEN [ret |-> FALSE, w |-> w]
    ELSE [ret |-> TRUE, w |-> forEachLive(eventName, 1, position, w)]

\* emit: handlers is the array the map holds when emit starts.  off replaces
\* the map's entry by a filtered copy and leaves that array as it is; on
\* pushes onto it, beyond the length forEach has read.
emit(w, eventName, position) ==
    LET handlers == Listeners(w.events, eventName)
    IN  IF Len(handlers) = 0 THEN [ret |-> FALSE, w |-> w]
        ELSE [ret |-> TRUE, w |-> forEach(handlers, position, w)]

\* The state a callback can reach, with the invocation log emptied
World == [events |-> events, calls |-> << >>, startTimers |-> startTimers,
          bg |-> bg, mp |-> mp, onceCalls |-> onceCalls, thrown |-> "none",
          mousePosition |-> mousePosition, kept |-> kept]

\* Store the world a call returned (the callers bind the result of emit by
\* \E r \in { emit(...) }, which has it computed once)
Commit(w) ==
    /\ events' = w.events
    /\ calls' = w.calls
    /\ startTimers' = w.startTimers
    /\ bg' = w.bg
    /\ mp' = w.mp
    /\ onceCalls' = w.onceCalls
    /\ kept' = w.kept
    /\ UNCHANGED smoothing

(***************************************************************************)
(* MouseTracker                                                            *)
(***************************************************************************)
\* this.emit(name, this.mousePosition) by the tracker, with its bookkeeping.
\* source is the caller, recorded for 'init' only.
TrackerEmit(eventName, position, source) ==
    \E r \in { emit([World EXCEPT !.mousePosition = position], eventName,
                     MousePositionRef) } :
        /\ Commit(r.w)
        /\ mousePosition' = r.w.mousePosition
        /\ firstEmitted' = IF firstEmitted = "none" THEN eventName
                           ELSE firstEmitted
        /\ movesEmitted' = IF eventName = "mousemove" THEN movesEmitted + 1
                           ELSE movesEmitted
        /\ initSources' = IF eventName = "init" THEN Append(initSources, source)
                          ELSE initSources
        /\ lastEmit' = [name |-> eventName, position |-> position, ret |-> r.ret]

\* A plausible slip: destroyInitialTracker() left out
returnMousePosition_KeepOverlay(position, source) ==
    /\ UNCHANGED overlayElement
    /\ TrackerEmit("init", position, source)

\* returnMousePosition: resolve(...) settles the promise nobody awaits;
\* destroyInitialTracker(); this.emit('init', this.mousePosition)
returnMousePosition(position, source) ==
    /\ overlayElement' = "null"
    /\ TrackerEmit("init", position, source)

\* A plausible slip: the 'mouseenter' listener added to the window, which
\* outlives the overlay
setMousePosition_OnWindow(x, y) ==
    /\ pc = "running"
    /\ returnMousePosition(calculateMovement(x, y, viewport), "mouseenter")
    /\ UNCHANGED << pc, havePointer, dom, viewport, timerPending, moveListener,
                    hostMoves, busOps >>

\* The overlay's 'mouseenter' listener (once: true): setMousePosition(event)
setMousePosition(x, y) ==
    /\ pc = "running"
    /\ overlayElement = "attached"
    /\ returnMousePosition(calculateMovement(x, y, viewport), "mouseenter")
    /\ UNCHANGED << pc, havePointer, dom, viewport, timerPending, moveListener,
                    hostMoves, busOps >>

\* A plausible slip: the timer settling with the default position
BootstrapTimeout_Default ==
    /\ pc = "running"
    /\ timerPending
    /\ timerPending' = FALSE
    /\ returnMousePosition([x |-> 0, y |-> 0], "timeout")
    /\ UNCHANGED << pc, havePointer, dom, viewport, moveListener, hostMoves,
                    busOps >>

\* setTimeout(returnMousePosition, 1_000) fires
BootstrapTimeout ==
    /\ pc = "running"
    /\ timerPending
    /\ timerPending' = FALSE
    /\ returnMousePosition(mousePosition, "timeout")
    /\ UNCHANGED << pc, havePointer, dom, viewport, moveListener, hostMoves,
                    busOps >>

\* A plausible slip: the window's dimensions read once, at 4 x 2, and kept
calculateAndEmitMousePosition_Cached(x, y) ==
    TrackerEmit("mousemove", calculateMovement(x, y, [w |-> 4, h |-> 2]),
                "pointermove")

\* calculateAndEmitMousePosition = (event) => { this.calculateMovement(
\* event.clientX, event.clientY); this.emit('mousemove', this.mousePosition) }
calculateAndEmitMousePosition(x, y) ==
    LET position == calculateMovement(x, y, viewport)
    IN  TrackerEmit("mousemove", position, "pointermove")

\* The host dispatches 'pointermove' to window; calculateAndEmitMousePosition
\* runs when watchMousePosition attached it.
dispatchPointerMove(x, y) ==
    /\ pc = "running"
    /\ hostMoves < MaxMoves
    /\ hostMoves' = hostMoves + 1
    /\ IF moveListener
       THEN calculateAndEmitMousePosition(x, y)
       ELSE UNCHANGED << events, calls, onceCalls, kept, smoothing, consumerVars, mousePosition,
                         firstEmitted, movesEmitted, initSources, lastEmit >>
    /\ UNCHANGED << pc, havePointer, dom, viewport, overlayElement,
                    timerPending, moveListener >>

PointerMove(x, y) ==
    /\ dispatchPointerMove(x, y)
    /\ UNCHANGED busOps

\* A plausible slip: falling through to the tracking path without a pointer
MouseTracker_init_NoReturn ==
    IF ~havePointer
    THEN /\ TrackerEmit("init", mousePosition, "constructor")
         /\ overlayElement' = "attached"
         /\ timerPending' = TRUE
         /\ moveListener' = TRUE
    ELSE /\ overlayElement' = "attached"
         /\ timerPending' = TRUE
         /\ moveListener' = TRUE
         /\ UNCHANGED << events, calls, onceCalls, kept, smoothing, consumerVars, mousePosition,
                         firstEmitted, movesEmitted, initSources, lastEmit >>

\* A plausible slip: the bootstrap without its timeout fallback
MouseTracker_init_NoTimer ==
    IF ~havePointer
    THEN /\ TrackerEmit("init", mousePosition, "constructor")
         /\ UNCHANGED << overlayElement, timerPending, moveListener >>
    ELSE /\ overlayElement' = "attached"
         /\ timerPending' = FALSE
         /\ moveListener' = TRUE
         /\ UNCHANGED << events, calls, onceCalls, kept, smoothing, consumerVars, mousePosition,
                         firstEmitted, movesEmitted, initSources, lastEmit >>

\* A plausible slip: watchMousePosition() called ahead of the pointer test
MouseTracker_init_WatchFirst ==
    IF ~havePointer
    THEN /\ TrackerEmit("init", mousePosition, "constructor")
         /\ moveListener' = TRUE
         /\ UNCHANGED << overlayElement, timerPending >>
    ELSE /\ overlayElement' = "attached"
         /\ timerPending' = TRUE
         /\ moveListener' = TRUE
         /\ UNCHANGED << events, calls, onceCalls, kept, smoothing, consumerVars, mousePosition,
                         firstEmitted, movesEmitted, initSources, lastEmit >>

\* init(): without a pointer emit 'init' and return; otherwise
\* setInitialMousePosition() (createInitialTracker, the 'mouseenter'
\* listener, the timer) and watchMousePosition()
MouseTracker_init ==
    IF ~havePointer
    THEN /\ TrackerEmit("init", mousePosition, "constructor")
         /\ UNCHANGED << overlayElement, timerPending, moveListener >>
    ELSE /\ overlayElement' = "attached"
         /\ timerPending' = TRUE
         /\ moveListener' = TRUE
         /\ UNCHANGED << events, calls, onceCalls, kept, smoothing, consumerVars, mousePosition,
                         firstEmitted, movesEmitted, initSources, lastEmit >>

\* export const mouseTracker = new MouseTracker(), evaluated when the first
\* consumer module imports it
NewMouseTracker ==
    /\ pc = "mouseTracker"
    /\ pc' = "parallaxBackground"
    /\ MouseTracker_init
    /\ UNCHANGED << havePointer, dom, viewport, hostMoves, busOps >>

(***************************************************************************)
(* ParallaxBackground: construction and the Visibility Gate                *)
(***************************************************************************)
\* A plausible slip: the pointer test of init() left out
ParallaxBackground_init_NoPointerTest(b) ==
    /\ events' = on(events, "init", "setStartPosition")
    /\ bg' = [b EXCEPT !.observing = dom.wrapper]

\* init(): mouseTracker.on('init', this.setStartPosition); without a pointer
\* or a wrapper stop; otherwise intersectionObserver(wrapper, watchIntersection)
ParallaxBackground_init(b) ==
    /\ events' = on(events, "init", "setStartPosition")
    /\ bg' = [b EXCEPT !.observing = havePointer /\ dom.wrapper]

\* A plausible slip: the warning without the return behind it
NewParallaxBackground_NoReturn ==
    /\ pc = "parallaxBackground"
    /\ pc' = "parallaxMouse"
    /\ ParallaxBackground_init([bg EXCEPT !.setter = dom.background,
                                          !.warned = ~dom.background])
    /\ calls' = << >>
    /\ UNCHANGED << onceCalls, kept, smoothing >>
    /\ UNCHANGED << havePointer, dom, viewport, trackerVars, hostMoves,
                    startTimers, mp, busOps >>

\* constructor: no background element (the background is looked up inside the
\* wrapper, so none without a wrapper either) -> console.warn and return;
\* otherwise the quickTo setters and init()
NewParallaxBackground ==
    /\ pc = "parallaxBackground"
    /\ pc' = "parallaxMouse"
    /\ IF ~dom.background
       THEN /\ bg' = [bg EXCEPT !.warned = TRUE]
            /\ UNCHANGED events
       ELSE ParallaxBackground_init([bg EXCEPT !.setter = TRUE])
    /\ calls' = << >>
    /\ UNCHANGED << onceCalls, kept, smoothing >>
    /\ UNCHANGED << havePointer, dom, viewport, trackerVars, hostMoves,
                    startTimers, mp, busOps >>

\* entry.isIntersecting of the last entry delivered, "none" before the first
Report(isIntersecting) == IF isIntersecting THEN "intersecting" ELSE "hidden"

\* A plausible slip: subscribing on every entry
watchIntersection_AlwaysOn(ev) == on(ev, "mousemove", "onMouseMove")

\* watchIntersection = () => mouseTracker.toggle('mousemove', this.onMouseMove)
watchIntersection(ev) == toggle(ev, "mousemove", "onMouseMove")

\* The IntersectionObserver of utils/intersectionObserver delivers an entry
\* for the wrapper: the first one reports the state at observe(), each later
\* one a crossing of the threshold.
BackgroundGateReport(isIntersecting) ==
    /\ pc = "running"
    /\ bg.observing
    /\ bg.lastReport # Report(isIntersecting)
    /\ events' = watchIntersection(events)
    /\ bg' = [bg EXCEPT !.lastReport = Report(isIntersecting)]
    /\ calls' = << >>
    /\ UNCHANGED << onceCalls, kept, smoothing >>
    /\ UNCHANGED << pc, havePointer, dom, viewport, trackerVars, hostMoves,
                    startTimers, mp, busOps >>

\* The setTimeout(..., 750) of setStartPosition fires (timers of equal delay
\* fire in the order they were set)
StartPositionTimeout ==
    /\ pc = "running"
    /\ startTimers # << >>
    /\ bg' = animateBackgroundToTarget(
                ParallaxBackground_calculateMovement(bg, Head(startTimers), viewport))
    /\ startTimers' = Tail(startTimers)
    /\ calls' = << >>
    /\ UNCHANGED << onceCalls, kept, smoothing >>
    /\ UNCHANGED << pc, havePointer, dom, viewport, events, trackerVars,
                    hostMoves, mp, busOps >>

(***************************************************************************)
(* MouseParallax: construction and the Visibility Gate                     *)
(***************************************************************************)
\* if (havePointer) new MouseParallax(): init() returns when no element
\* matches; otherwise setupObservers() and the two subscriptions
NewMouseParallax ==
    /\ pc = "parallaxMouse"
    /\ pc' = "running"
    /\ IF havePointer /\ dom.elements # {}
       THEN /\ mp' = [mp EXCEPT !.observing = dom.elements]
            /\ events' = on(on(events, "init", "animateVisibleElements_init"),
                            "mousemove", "animateVisibleElements_mousemove")
       ELSE UNCHANGED << mp, events >>
    /\ calls' = << >>
    /\ UNCHANGED << onceCalls, kept, smoothing >>
    /\ UNCHANGED << havePointer, dom, viewport, trackerVars, hostMoves,
                    startTimers, bg, busOps >>

\* onIntersection(entry): add or delete entry.target in visibleElements
onIntersection(m, el, isIntersecting) ==
    [m EXCEPT !.visibleElements = IF isIntersecting THEN @ \cup {el}
                                  ELSE @ \ {el},
              !.lastReport[el] = Report(isIntersecting)]

ElementGateReport(el, isIntersecting) ==
    /\ pc = "running"
    /\ el \in mp.observing
    /\ mp.lastReport[el] # Report(isIntersecting)
    /\ mp' = onIntersection(mp, el, isIntersecting)
    /\ calls' = << >>
    /\ UNCHANGED << onceCalls, kept, smoothing >>
    /\ UNCHANGED << pc, havePointer, dom, viewport, events, trackerVars,
                    hostMoves, startTimers, bg, busOps >>

\* The window is resized between events
Resize(vp) ==
    /\ pc = "running"
    /\ vp # viewport
    /\ viewport' = vp
    /\ UNCHANGED << pc, havePointer, dom, events, calls, onceCalls, kept, smoothing, trackerVars,
                    hostMoves, consumerVars, busOps >>

(***************************************************************************)
(* The page: module evaluation, then host events                           *)
(***************************************************************************)
Doms == { [wrapper |-> TRUE, background |-> TRUE, elements |-> { "el1" }],
          [wrapper |-> TRUE, background |-> FALSE, elements |-> {}],
          [wrapper |-> FALSE, background |-> FALSE, elements |-> { "el1" }] }

IdleTracker ==
    /\ overlayElement = "null"
    /\ timerPending = FALSE
    /\ moveListener = FALSE
    /\ mousePosition = [x |-> 0, y |-> 0]
    /\ firstEmitted = "none"
    /\ movesEmitted = 0
    /\ initSources = << >>
    /\ lastEmit = [name |-> "none", position |-> [x |-> 0, y |-> 0], ret |-> FALSE]

IdleConsumers ==
    /\ startTimers = << >>
    /\ bg = [setter |-> FALSE, targetBackgroundX |-> 0, targetBackgroundY |-> 0,
             setX |-> 0, setY |-> 0, observing |-> FALSE, lastReport |-> "none",
             initCalls |-> 0, warned |-> FALSE]
    /\ mp = [observing |-> {}, visibleElements |-> {},
             lastReport |-> [el \in Elements |-> "none"],
             target |-> [el \in Elements |-> [set |-> FALSE, x |-> 0, y |-> 0]],
             initCalls |-> 0, animated |-> {}]

\* The host dispatches 'mouseenter' to the overlay under the pointer
MouseEnter == \E p \in Pointers(viewport) : setMousePosition(p.x, p.y)

\* The host dispatches 'pointermove' to window
HostPointerMove == \E p \in Pointers(viewport) : PointerMove(p.x, p.y)

Init ==
    /\ pc = "mouseTracker"
    /\ havePointer \in BOOLEAN
    /\ dom \in Doms
    /\ viewport \in Viewports
    /\ events = NoEvents
    /\ calls = << >>
    /\ IdleTracker
    /\ IdleConsumers
    /\ hostMoves = 0
    /\ busOps = << >>
    /\ onceCalls = [l \in OneTimeListeners |-> 0]
    /\ kept = NothingKept
    /\ smoothing = NoSmoothing

Next ==
    \/ NewMouseTracker
    \/ NewParallaxBackground
    \/ NewMouseParallax
    \/ MouseEnter
    \/ BootstrapTimeout
    \/ HostPointerMove
    \/ \E b \in BOOLEAN : BackgroundGateReport(b)
    \/ StartPositionTimeout
    \/ \E el \in Elements, b \in BOOLEAN : ElementGateReport(el, b)
    \/ \E vp \in Viewports : Resize(vp)

Spec == Init /\ [][Next]_vars

(***************************************************************************)
(* A page with a pointer and two [mouse-parallax] elements (and no         *)
(* background, which plays no part in what MouseParallax does).            *)
(***************************************************************************)
PointerPage(document) ==
    /\ pc = "mouseTracker"
    /\ havePointer = TRUE
    /\ dom = document
    /\ viewport \in Viewports
    /\ events = NoEvents
    /\ calls = << >>
    /\ IdleTracker
    /\ IdleConsumers
    /\ hostMoves = 0
    /\ busOps = << >>
    /\ onceCalls = [l \in OneTimeListeners |-> 0]
    /\ kept = NothingKept
    /\ smoothing = NoSmoothing

InitFollow ==
    PointerPage([wrapper |-> FALSE, background |-> FALSE, elements |-> Elements])

NextFollow ==
    \/ NewMouseTracker
    \/ NewParallaxBackground
    \/ NewMouseParallax
    \/ MouseEnter
    \/ BootstrapTimeout
    \/ HostPointerMove
    \/ \E el \in Elements, b \in BOOLEAN : ElementGateReport(el, b)
    \/ \E vp \in Viewports : Resize(vp)

SpecFollow == InitFollow /\ [][NextFollow]_vars

(***************************************************************************)
(* A client of the EventEmitter API: any sequence of on / off / toggle /   *)
(* emit calls with plain handlers, on an emitter no page code touches.     *)
(***************************************************************************)
EventNames == { "init", "mousemove" }

Payloads == { [x |-> 0, y |-> 0], [x |-> 100, y |-> 100] }

\* The record of one API call: the map before it and what it returned
Op(name, eventName, callback, position, ret) ==
    [op |-> name, eventName |-> eventName, callback |-> callback,
     position |-> position, before |-> events, ret |-> ret]

Remember(o) ==
    busOps' = IF Len(busOps) < 2 THEN Append(busOps, o)
              ELSE << busOps[2], o >>

ClientFrame ==
    UNCHANGED << pc, havePointer, dom, viewport, trackerVars, hostMoves,
                 consumerVars >>

ClientOn(eventName, callback) ==
    /\ pc = "client"
    /\ Len(Listeners(events, eventName)) < MaxListeners
    /\ events' = on(events, eventName, callback)
    /\ calls' = << >>
    /\ UNCHANGED << onceCalls, kept, smoothing >>
    /\ Remember(Op("on", eventName, callback, [x |-> 0, y |-> 0], "this"))
    /\ ClientFrame

ClientOff(eventName, callback) ==
    /\ pc = "client"
    /\ events' = off(events, eventName, callback)
    /\ calls' = << >>
    /\ UNCHANGED << onceCalls, kept, smoothing >>
    /\ Remember(Op("off", eventName, callback, [x |-> 0, y |-> 0], "this"))
    /\ ClientFrame

ClientToggle(eventName, callback) ==
    /\ pc = "client"
    /\ \/ Len(Listeners(events, eventName)) < MaxListeners
       \/ Includes(Listeners(events, eventName), callback)
    /\ events' = toggle(events, eventName, callback)
    /\ calls' = << >>
    /\ UNCHANGED << onceCalls, kept, smoothing >>
    /\ Remember(Op("toggle", eventName, callback, [x |-> 0, y |-> 0], "this"))
    /\ ClientFrame

ClientEmit(eventName, position) ==
    /\ pc = "client"
    /\ \E r \in { emit(World, eventName, position) } :
           /\ Commit(r.w)
           /\ Remember(Op("emit", eventName, "none", position,
                          IF r.ret THEN "true" ELSE "false"))
    /\ UNCHANGED << pc, havePointer, dom, viewport, trackerVars, hostMoves >>

InitBus ==
    /\ pc = "client"
    /\ havePointer = TRUE
    /\ dom = [wrapper |-> FALSE, background |-> FALSE, elements |-> {}]
    /\ viewport = [w |-> 4, h |-> 2]
    /\ events = NoEvents
    /\ calls = << >>
    /\ IdleTracker
    /\ IdleConsumers
    /\ hostMoves = 0
    /\ busOps = << >>
    /\ onceCalls = [l \in OneTimeListeners |-> 0]
    /\ kept = NothingKept
    /\ smoothing = NoSmoothing

NextBus ==
    \/ \E e \in EventNames, h \in ClientHandlers : ClientOn(e, h)
    \/ \E e \in EventNames, h \in ClientHandlers : ClientOff(e, h)
    \/ \E e \in EventNames, h \in ClientHandlers : ClientToggle(e, h)
    \/ \E e \in EventNames, p \in Payloads : ClientEmit(e, p)

SpecBus == InitBus /\ [][NextBus]_vars

(***************************************************************************)
(* The tracker on a page with a pointer, each 'pointermove' it processes   *)
(* recorded with the window's dimensions at the event.                     *)
(***************************************************************************)
RecordedPointerMove(x, y) ==
    /\ dispatchPointerMove(x, y)
    /\ Remember([op |-> "pointermove", x |-> x, y |-> y, viewport |-> viewport,
                 ret |-> mousePosition'])

InitMove ==
    PointerPage([wrapper |-> FALSE, background |-> FALSE, elements |-> { "el1" }])

NextMove ==
    \/ NewMouseTracker
    \/ NewParallaxBackground
    \/ NewMouseParallax
    \/ MouseEnter
    \/ BootstrapTimeout
    \/ \E p \in Pointers(viewport) : RecordedPointerMove(p.x, p.y)
    \/ \E vp \in Viewports : Resize(vp)

SpecMove == InitMove /\ [][NextMove]_vars

(***************************************************************************)
(* The Visibility Gate (utils/intersectionObserver): one IntersectionObserver *)
(* per observed item, whose callback receives the entries the host has     *)
(* queued for that item and hands each of them to the consumer's callback, *)
(* here MouseParallax's onIntersection.                                    *)
(***************************************************************************)
\* The intersecting states of the entries of one delivery
Deliveries == UNION { [1..n -> BOOLEAN] : n \in 1..MaxEntries }

\* A plausible slip: ([entry]) => callback(entry, observer)
intersectionObserver_FirstEntry(entries, w) ==
    [w EXCEPT !.calls = Append(@, << "onIntersection", Head(entries) >>),
              !.mp = onIntersection(@, Head(entries).target,
                                    Head(entries).isIntersecting)]

\* (entries, observer) => entries.forEach((entry) => callback(entry, observer))
RECURSIVE intersectionObserver(_, _)
intersectionObserver(entries, w) ==
    IF entries = << >> THEN w
    ELSE intersectionObserver(Tail(entries),
            [w EXCEPT !.calls = Append(@, << "onIntersection", Head(entries) >>),
                      !.mp = onIntersection(@, Head(entries).target,
                                            Head(entries).isIntersecting)])

\* The host runs the observer's callback with the entries queued for el
ObserverCallback(el, delivery) ==
    /\ pc = "running"
    /\ el \in mp.observing
    /\ LET entries == [i \in DOMAIN delivery |->
                          [target |-> el, isIntersecting |-> delivery[i]]]
       IN  /\ \E r \in { intersectionObserver(entries, World) } :
                  /\ mp' = r.mp
                  /\ calls' = r.calls
           /\ busOps' = << [op |-> "entries", entries |-> entries] >>
    /\ UNCHANGED << onceCalls, kept, smoothing >>
    /\ UNCHANGED << pc, havePointer, dom, viewport, events, trackerVars,
                    hostMoves, startTimers, bg >>

NextObserver ==
    \/ NewMouseTracker
    \/ NewParallaxBackground
    \/ NewMouseParallax
    \/ \E el \in Elements, delivery \in Deliveries : ObserverCallback(el, delivery)
    \/ \E p \in Pointers(viewport) : PointerMove(p.x, p.y)

SpecObserver == InitFollow /\ [][NextObserver]_vars

(***************************************************************************)
(* The frame-based smoothing consumer (the block that follows the gate in  *)
(* utils/intersectionObserver.ts): a document 'mousemove' listener sets a  *)
(* target for the background, and animateBackgroundMovement moves the      *)
(* background a fraction of the way to it, once per animation frame, until *)
(* it is within stopThreshold of the target on both axes.  Positions are   *)
(* hundredths of a vw / vh; a movement is rounded to the nearest one.      *)
(***************************************************************************)
maxMovementX == 7500       \* 75 vw
maxMovementY == 7500       \* 75 vh
smoothnessFactor == 12     \* 0.12
stopThreshold == 10        \* 0.1

\* The handles of the host's animation-frame requests.  A handle identifies
\* a request; the consumer only ever tests its last one and hands it to
\* cancelAnimationFrame, so the numbers of retired requests are used again.
Handles == 1..(MaxMoves + 2)

\* The handle the host returns for a new request: not one of a pending
\* callback, and not the one the consumer still holds
NewHandle(s) ==
    CHOOSE h \in Handles \ (s.frames \cup { s.animationFrameId }) :
        \A g \in Handles \ (s.frames \cup { s.animationFrameId }) : h <= g

\* -(((mouse / screen) - 0.5) * 2 * maxMovement)
TargetBackground(mouse, screen, maxMovement) ==
    -RoundHalfAway((2 * mouse - screen) * maxMovement, screen)

Smoothing_calculateMovement(s, mouseXPosition, mouseYPosition, vp) ==
    [s EXCEPT !.targetBackgroundX = TargetBackground(mouseXPosition, vp.w, maxMovementX),
              !.targetBackgroundY = TargetBackground(mouseYPosition, vp.h, maxMovementY)]

\* distanceToTarget * parallaxConfig.smoothnessFactor
smoothMovement(distanceToTarget) ==
    RoundHalfAway(distanceToTarget * smoothnessFactor, 100)

\* A plausible slip: the loop running until the target is reached exactly
stillMoving_NoThreshold(distance) ==
    (IF distance < 0 THEN -distance ELSE distance) > 0

\* Math.abs(target - current) > parallaxConfig.stopThreshold
stillMoving(distance) ==
    (IF distance < 0 THEN -distance ELSE distance) > stopThreshold

\* if (animationFrameId) cancelAnimationFrame(animationFrameId)
cancelPending(s) ==
    IF s.animationFrameId # 0
    THEN [s EXCEPT !.frames = @ \ { s.animationFrameId }]
    ELSE s

\* The rest of animateBackgroundMovement: the movement, and the request of
\* the next frame while the background is still moving
moveAndContinue(s) ==
    LET x == s.currentBackgroundX + smoothMovement(s.targetBackgroundX - s.currentBackgroundX)
        y == s.currentBackgroundY + smoothMovement(s.targetBackgroundY - s.currentBackgroundY)
        moved == [s EXCEPT !.currentBackgroundX = x, !.currentBackgroundY = y]
    IN  IF stillMoving(s.targetBackgroundX - x) \/ stillMoving(s.targetBackgroundY - y)
        THEN [moved EXCEPT !.animationFrameId = NewHandle(s),
                           !.frames = @ \cup { NewHandle(s) }]
        ELSE moved

\* A plausible slip: a new frame requested without cancelling the pending one
animateBackgroundMovement_NoCancel(s) == moveAndContinue(s)

animateBackgroundMovement(s) == moveAndContinue(cancelPending(s))

SmoothingFrame ==
    UNCHANGED << pc, havePointer, dom, viewport, events, calls, trackerVars,
                 consumerVars, busOps, onceCalls, kept >>

\* document 'mousemove' -> onMouseMove(mouseEvent)
Smoothing_onMouseMove(clientX, clientY) ==
    /\ pc = "smoothing"
    /\ hostMoves < MaxMoves
    /\ hostMoves' = hostMoves + 1
    /\ smoothing' = animateBackgroundMovement(
            Smoothing_calculateMovement(smoothing, clientX, clientY, viewport))
    /\ SmoothingFrame

\* The host runs a pending animation-frame callback: it takes the callback
\* off its list and calls animateBackgroundMovement
AnimationFrame(handle) ==
    /\ pc = "smoothing"
    /\ handle \in smoothing.frames
    /\ smoothing' = animateBackgroundMovement(
            [smoothing EXCEPT !.frames = @ \ { handle }])
    /\ SmoothingFrame
    /\ UNCHANGED hostMoves

\* The page once the block has run: the background element found, nothing
\* moved, no frame requested, the 'mousemove' listener added
InitSmoothing ==
    /\ pc = "smoothing"
    /\ havePointer = TRUE
    /\ dom = [wrapper |-> FALSE, background |-> TRUE, elements |-> {}]
    /\ viewport \in Viewports
    /\ events = NoEvents
    /\ calls = << >>
    /\ IdleTracker
    /\ IdleConsumers
    /\ hostMoves = 0
    /\ busOps = << >>
    /\ onceCalls = [l \in OneTimeListeners |-> 0]
    /\ kept = NothingKept
    /\ smoothing = NoSmoothing

NextSmoothing ==
    \/ \E p \in Pointers(viewport) : Smoothing_onMouseMove(p.x, p.y)
    \/ \E handle \in Handles : AnimationFrame(handle)

SpecSmoothing == InitSmoothing /\ [][NextSmoothing]_vars

\* The host goes on painting: a pending animation-frame callback is run
SpecSmoothingFair ==
    SpecSmoothing /\ WF_vars(\E handle \in Handles : AnimationFrame(handle))

(***************************************************************************)
(* A caller of the EventEmitter API that also passes what the contract     *)
(* names as edge cases: arguments of the wrong type, once(), handlers that *)
(* throw, handlers that publish from inside their own invocation.          *)
(***************************************************************************)
ApiEvents == { "init", NotAString }

ApiHandlers == { "h1", "hThrow", "hReemit", NotAFunction }

\* Handlers registered in all
Subscribed(ev) ==
    Len(Listeners(ev, "init")) + Len(Listeners(ev, "mousemove"))
        + Len(Listeners(ev, NotAString))

\* onceCalls is kept for the closures some handler list holds; a closure
\* that no list holds is garbage when the next call starts
LiveOnceCalls ==
    [l \in OneTimeListeners |->
        IF Includes(Listeners(events, ClosureOf(l).eventName), l)
        THEN onceCalls[l] ELSE 0]

ApiWorld == [World EXCEPT !.onceCalls = LiveOnceCalls]

ApiReturn(name, eventName, callback) ==
    /\ calls' = << >>
    /\ onceCalls' = LiveOnceCalls
    /\ UNCHANGED << kept, smoothing >>
    /\ busOps' = << Op(name, eventName, callback, [x |-> 0, y |-> 0], "this") >>
    /\ ClientFrame

ApiOn(eventName, callback) ==
    /\ pc = "api"
    /\ Subscribed(events) < MaxSubs
    /\ events' = on(events, eventName, callback)
    /\ ApiReturn("on", eventName, callback)

ApiOff(eventName, callback) ==
    /\ pc = "api"
    /\ events' = off(events, eventName, callback)
    /\ ApiReturn("off", eventName, callback)

ApiToggle(eventName, callback) ==
    /\ pc = "api"
    /\ \/ Subscribed(events) < MaxSubs
       \/ Includes(Listeners(events, eventName), callback)
    /\ events' = toggle(events, eventName, callback)
    /\ ApiReturn("toggle", eventName, callback)

ApiOnce(eventName, callback) ==
    /\ pc = "api"
    /\ Subscribed(events) < MaxSubs
    /\ FreeClosures(events, eventName, callback) # {}
    /\ events' = once(events, eventName, callback)
    /\ ApiReturn("once", eventName, callback)

\* emit returns true or false, or the exception of a callback leaves it
ApiEmit(eventName, position) ==
    /\ pc = "api"
    /\ \E r \in { emit(ApiWorld, eventName, position) } :
           /\ Commit(r.w)
           /\ busOps' = << Op("emit", eventName, "none", position,
                              IF Thrown(r.w) THEN "threw"
                              ELSE IF r.ret THEN "true" ELSE "false") >>
    /\ UNCHANGED << pc, havePointer, dom, viewport, trackerVars, hostMoves >>

InitApi ==
    /\ pc = "api"
    /\ havePointer = TRUE
    /\ dom = [wrapper |-> FALSE, background |-> FALSE, elements |-> {}]
    /\ viewport = [w |-> 4, h |-> 2]
    /\ events = NoEvents
    /\ calls = << >>
    /\ IdleTracker
    /\ IdleConsumers
    /\ hostMoves = 0
    /\ busOps = << >>
    /\ onceCalls = [l \in OneTimeListeners |-> 0]
    /\ kept = NothingKept
    /\ smoothing = NoSmoothing

NextApi ==
    \/ \E e \in ApiEvents, h \in ApiHandlers : ApiOn(e, h)
    \/ \E e \in ApiEvents, h \in ApiHandlers : ApiOff(e, h)
    \/ \E e \in ApiEvents, h \in ApiHandlers : ApiToggle(e, h)
    \/ \E e \in OnceEvents, h \in OnceCallbacks : ApiOnce(e, h)
    \/ \E e \in ApiEvents, p \in Payloads : ApiEmit(e, p)

SpecApi == InitApi /\ [][NextApi]_vars

(***************************************************************************)
(* A client that registers handlers more than once: three handlers on one  *)
(* event name.                                                             *)
(***************************************************************************)
RepeatHandlers == { "h1", "h2", "h3" }

NextRepeat ==
    \/ \E h \in RepeatHandlers : ClientOn("init", h)
    \/ \E h \in RepeatHandlers : ClientOff("init", h)
    \/ \E p \in Payloads : ClientEmit("init", p)

SpecRepeat == InitBus /\ [][NextRepeat]_vars

(***************************************************************************)
(* A caller that uses once() next to on, off and toggle on the two event   *)
(* names of the page.                                                      *)
(***************************************************************************)
NextNames ==
    \/ \E e \in EventNames, h \in ClientHandlers : ApiOn(e, h)
    \/ \E e \in EventNames, h \in ClientHandlers : ApiOff(e, h)
    \/ \E e \in EventNames, h \in ClientHandlers : ApiToggle(e, h)
    \/ ApiOnce("init", "h1")
    \/ \E e \in EventNames, p \in Payloads : ApiEmit(e, p)

SpecNames == InitApi /\ [][NextNames]_vars

(***************************************************************************)
(* A caller whose handlers subscribe and unsubscribe from inside their own *)
(* invocation.                                                             *)
(***************************************************************************)
DispatchHandlers == { "h1", "hOff", "hOn", "hToggle" }

\* hOn lengthens the list by one per invocation: emit is called on lists of
\* at most MaxSubs handlers
DispatchEmit(position) ==
    /\ Subscribed(events) <= MaxSubs
    /\ ApiEmit("init", position)

NextDispatch ==
    \/ \E h \in DispatchHandlers : ApiOn("init", h)
    \/ \E h \in DispatchHandlers : ApiOff("init", h)
    \/ ApiOnce("init", "h1")
    \/ \E p \in Payloads : DispatchEmit(p)

SpecDispatch == InitApi /\ [][NextDispatch]_vars

(***************************************************************************)
(* The coordinate transforms over the pointer positions of a viewport: a   *)
(* page at rest after its bootstrap (the timer fired, the wrapper is in    *)
(* view, the start position is set), then 'pointermove' events anywhere in *)
(* the viewport.  Each event runs the tracker's transform, the emit and    *)
(* the background consumer's transform.                                    *)
(*                                                                         *)
(* toFixed and Math.round work on doubles.  The integer arithmetic here    *)
(* gives the same results except where the exact value is a tie that is no *)
(* binary fraction (0.025 at x = 41 of 80): there the rounding error of    *)
(* the double decides between the two nearest values.  The viewports and   *)
(* pixels below hold ties that are binary fractions (0.125 at 9 of 16 and  *)
(* at 1080 of 1920) and none of the other kind.                            *)
(***************************************************************************)
CalcViewports ==
    { [w |-> a, h |-> b] : a \in 1..MaxWidth, b \in 1..MaxHeight }
        \cup { [w |-> 16, h |-> 16], [w |-> 1920, h |-> 1080] }

\* clientX (clientY) of the events: every pixel of a small viewport; of a
\* large one the edges, the centre, 7/16 (-0.125), 9/16 (0.125), 7/10 (0.4)
Pixels(dim) ==
    IF dim <= MaxWidth THEN 0..dim
    ELSE { 0, 1, (7 * dim) \div 16, dim \div 2, (9 * dim) \div 16,
           (7 * dim) \div 10, dim - 1, dim }

CalcPointerMove(x, y) ==
    /\ pc = "calc"
    /\ hostMoves < MaxMoves
    /\ hostMoves' = hostMoves + 1
    /\ calculateAndEmitMousePosition(x, y)
    /\ Remember([op |-> "pointermove", x |-> x, y |-> y, ret |-> mousePosition'])
    /\ UNCHANGED << pc, havePointer, dom, viewport, overlayElement,
                    timerPending, moveListener >>

\* The page at rest after a bootstrap settled by the timer, in a viewport of
\* vps, with the 'mousemove' listeners in one of the orders of subscribers
AtRest(vps, subscribers) ==
    /\ pc = "calc"
    /\ havePointer = TRUE
    /\ dom = [wrapper |-> TRUE, background |-> TRUE, elements |-> {}]
    /\ viewport \in vps
    /\ \E listeners \in subscribers :
          events = [e \in { "init", "mousemove" } |->
                        IF e = "init" THEN << "setStartPosition" >>
                        ELSE listeners]
    /\ calls = << >>
    /\ overlayElement = "null"
    /\ timerPending = FALSE
    /\ moveListener = TRUE
    /\ mousePosition = [x |-> 0, y |-> 0]
    /\ firstEmitted = "init"
    /\ movesEmitted = 0
    /\ initSources = << "timeout" >>
    /\ lastEmit = [name |-> "init", position |-> [x |-> 0, y |-> 0], ret |-> TRUE]
    /\ startTimers = << >>
    /\ bg = [setter |-> TRUE, targetBackgroundX |-> 0, targetBackgroundY |-> 0,
             setX |-> 0, setY |-> 0, observing |-> TRUE,
             lastReport |-> "intersecting", initCalls |-> 1,
             warned |-> FALSE]
    /\ mp = [observing |-> {}, visibleElements |-> {},
             lastReport |-> [el \in Elements |-> "none"],
             target |-> [el \in Elements |-> [set |-> FALSE, x |-> 0, y |-> 0]],
             initCalls |-> 0, animated |-> {}]
    /\ hostMoves = 0
    /\ busOps = << >>
    /\ onceCalls = [l \in OneTimeListeners |-> 0]
    /\ kept = NothingKept
    /\ smoothing = NoSmoothing

InitCalc == AtRest(CalcViewports, { << "onMouseMove" >> })

NextCalc ==
    \E x \in Pixels(viewport.w), y \in Pixels(viewport.h) : CalcPointerMove(x, y)

SpecCalc == InitCalc /\ [][NextCalc]_vars

(***************************************************************************)
(* The same page with another module subscribed to the exported            *)
(* mouseTracker ahead of the background: a handler that keeps the payload  *)
(* object it was given, alone or followed by one that writes to it.        *)
(***************************************************************************)
InitAlias ==
    AtRest(Viewports, { << "hKeep", "onMouseMove" >>,
                        << "hKeep", "hMutate", "onMouseMove" >> })

SpecAlias == InitAlias /\ [][NextCalc]_vars

(***************************************************************************)
(* The background consumer under a Visibility Gate that delivers entries   *)
(* in any sequence, equal ones in a row included, between pointer events.  *)
(***************************************************************************)
WrapperEntry(isIntersecting) ==
    /\ pc = "calc"
    /\ bg.observing
    /\ events' = watchIntersection(events)
    /\ bg' = [bg EXCEPT !.lastReport = Report(isIntersecting)]
    /\ Remember([op |-> "entry", isIntersecting |-> isIntersecting,
                 previous |-> bg.lastReport])
    /\ calls' = << >>
    /\ UNCHANGED << onceCalls, kept, smoothing >>
    /\ UNCHANGED << pc, havePointer, dom, viewport, trackerVars, hostMoves,
                    startTimers, mp >>

InitGate == AtRest(Viewports, { << "onMouseMove" >> })

NextGate ==
    \/ \E isIntersecting \in BOOLEAN : WrapperEntry(isIntersecting)
    \/ \E p \in Pointers(viewport) : CalcPointerMove(p.x, p.y)

SpecGate == InitGate /\ [][NextGate]_vars

(***************************************************************************)
(* The page with the scheduling the host guarantees: a timer that was set  *)
(* fires, and module evaluation runs to its end.                           *)
(***************************************************************************)
SpecFair ==
    /\ Spec
    /\ WF_vars(NewMouseTracker)
    /\ WF_vars(NewParallaxBackground)
    /\ WF_vars(NewMouseParallax)
    /\ WF_vars(BootstrapTimeout)

(***************************************************************************)
(* Properties                                                              *)
(***************************************************************************)
TrackerConstructed == pc \notin { "mouseTracker", "client", "api" }

\* The last pointer event delivered to calculateAndEmitMousePosition
Moved == pc = "calc" /\ busOps # << >>

\* A quotient num / den (den > 0) and an integer n: n is a nearest integer
Nearest(n, num, den) ==
    /\ 2 * (n * den - num) <= den
    /\ 2 * (num - n * den) <= den

Registered(eventName, callback) ==
    Includes(Listeners(events, eventName), callback)

\* C1: one tracker emits 'init' exactly once, whichever bootstrap source
\* fires first: never twice, and once both sources are spent exactly once.
C1_InitExactlyOnce ==
    /\ Len(initSources) <= 1
    /\ (TrackerConstructed /\ ~timerPending) => Len(initSources) = 1

\* C2: the first event a tracker emits is 'init'; no 'mousemove' precedes it.
C2_InitBeforeMovement ==
    firstEmitted \in { "none", "init" }

\* C3: a consumer subscribed to 'init' at page load has its init handler
\* invoked exactly once: never twice, and exactly once when the page runs
\* and the bootstrap sources are spent (with or without a fine pointer).
C3_ConsumerInitOnce ==
    /\ Registered("init", "setStartPosition") =>
          /\ bg.initCalls <= 1
          /\ (pc = "running" /\ ~timerPending) => bg.initCalls = 1
    /\ Registered("init", "animateVisibleElements_init") =>
          /\ mp.initCalls <= 1
          /\ (pc = "running" /\ ~timerPending) => mp.initCalls = 1

\* C4: without pointer capability the tracker emits 'init' with payload
\* (0,0) and nothing else, whatever the host delivers afterwards.
C4_NoPointerInitOnly ==
    (~havePointer /\ TrackerConstructed) =>
        /\ firstEmitted = "init"
        /\ movesEmitted = 0
        /\ initSources = << "constructor" >>
        /\ lastEmit.name = "init"
        /\ lastEmit.position = [x |-> 0, y |-> 0]

\* C4 witness: no pointer capability, and the host has dispatched pointermove
\* events to the window after the tracker emitted 'init'.
C4_Witness ==
    /\ ~havePointer
    /\ pc = "running"
    /\ hostMoves >= 2
    /\ movesEmitted = 0
    /\ initSources = << "constructor" >>

\* C5: with a fine pointer, 'init' is eventually emitted even when no
\* pointer event reaches the overlay: the bootstrap timer fires.
C5_InitEventually ==
    (havePointer /\ pc = "running") ~> (Len(initSources) >= 1)

\* C5 witness: 'init' was emitted by the timer, no 'mouseenter' before it.
C5_Witness ==
    /\ havePointer
    /\ initSources = << "timeout" >>
    /\ hostMoves = 0

\* C6: while the last Visibility Gate report of the background consumer is
\* non-intersecting, its movement handler is not registered on the tracker.
C6_HiddenUnsubscribed ==
    bg.lastReport = "hidden" => ~Registered("mousemove", "onMouseMove")

\* C7: while the last Visibility Gate report of the background consumer is
\* intersecting, its movement handler is registered, and a 'mousemove' that
\* was just dispatched has recomputed the target displacement.
C7_VisibleSubscribed ==
    bg.lastReport = "intersecting" =>
        /\ Registered("mousemove", "onMouseMove")
        /\ (lastEmit.name = "mousemove" /\ calls # << >>) =>
              /\ bg.targetBackgroundX = TargetInPx(lastEmit.position.x, viewport.w)
              /\ bg.targetBackgroundY = TargetInPx(lastEmit.position.y, viewport.h)

\* The last two API calls were toggle(e, h) with the same e and h
ToggledTwice ==
    /\ Len(busOps) = 2
    /\ busOps[1].op = "toggle"
    /\ busOps[2].op = "toggle"
    /\ busOps[1].eventName = busOps[2].eventName
    /\ busOps[1].callback = busOps[2].callback

\* C8 as stated: toggle(e, h) twice in a row leaves the handler sequence of e
\* (members, multiplicity, order) as it was before the first call.
C8_ToggleTwiceIdentity ==
    ToggledTwice =>
        Listeners(events, busOps[1].eventName)
            = Listeners(busOps[1].before, busOps[1].eventName)

\* C8 amended: toggle(e, h) twice in a row leaves the sequence unchanged when
\* h was not registered; when h was registered (once or more, anywhere) the
\* other handlers keep their multiplicity and order and h ends registered
\* exactly once, as the last handler.
C8_ToggleTwice ==
    ToggledTwice =>
        LET e == busOps[1].eventName
            h == busOps[1].callback
            was == Listeners(busOps[1].before, e)
            now == Listeners(events, e)
        IN  IF Includes(was, h) THEN now = Append(FilterOut(was, h), h)
            ELSE now = was

\* C8 witness: two toggles of a handler that was registered before another
\* handler.
C8_Witness ==
    /\ ToggledTwice
    /\ LET was == Listeners(busOps[1].before, busOps[1].eventName)
       IN  /\ Len(was) >= 2
           /\ was[1] = busOps[1].callback
           /\ was[2] # busOps[1].callback

LastOp == busOps[Len(busOps)]

\* C9: emit on an event name without handlers returns false, invokes no
\* handler and leaves the subscription state as it was.
C9_EmitNoHandlers ==
    (busOps # << >> /\ LastOp.op = "emit"
        /\ Listeners(LastOp.before, LastOp.eventName) = << >>) =>
        /\ LastOp.ret = "false"
        /\ calls = << >>
        /\ events = LastOp.before

\* C9 witness: an emit on an event name whose handlers were all removed.
C9_Witness ==
    /\ busOps # << >>
    /\ LastOp.op = "emit"
    /\ LastOp.eventName \in DOMAIN LastOp.before
    /\ LastOp.before[LastOp.eventName] = << >>

\* C10: emit with at least one handler registered invokes the handlers of
\* the event in registration order, each with the payload, and returns true.
C10_EmitInOrder ==
    (busOps # << >> /\ LastOp.op = "emit"
        /\ Listeners(LastOp.before, LastOp.eventName) # << >>) =>
        LET handlers == Listeners(LastOp.before, LastOp.eventName)
        IN  /\ LastOp.ret = "true"
            /\ calls = [i \in 1..Len(handlers) |-> << handlers[i], LastOp.position >>]

\* C10 witness: an emit with two different handlers registered, the second
\* registered handler not being the first.
C10_Witness ==
    /\ busOps # << >>
    /\ LastOp.op = "emit"
    /\ LET handlers == Listeners(LastOp.before, LastOp.eventName)
       IN  /\ Len(handlers) >= 2
           /\ handlers[1] # handlers[2]
    /\ Len(calls) >= 2

\* The last call was made with an event name that is not a string or, for
\* on / off / toggle, with a callback that is not a function
InvalidCall ==
    /\ pc = "api"
    /\ busOps # << >>
    /\ LastOp.op \in { "on", "off", "toggle", "emit" }
    /\ \/ ~IsString(LastOp.eventName)
       \/ LastOp.op # "emit" /\ ~IsFunction(LastOp.callback)

\* C11: on, off, toggle and emit called with a non-string event name or a
\* non-callable handler do not throw and change nothing: the handler lists
\* are as before the call and no handler was invoked.
C11_InvalidArgsNoOp ==
    InvalidCall =>
        /\ LastOp.ret # "threw"
        /\ events = LastOp.before
        /\ calls = << >>

\* C12: the callback of a once() registration is invoked at most once,
\* whatever is emitted and also when the callback emits the event itself, and
\* the registration is gone once the emit that invoked it has returned.
C12_OnceAtMostOnce ==
    pc = "api" =>
        \A l \in OneTimeListeners :
            /\ onceCalls[l] <= 1
            /\ (onceCalls[l] = 1 /\ LastOp.ret # "threw") =>
                  ~Registered(ClosureOf(l).eventName, l)

\* The handlers the last emit found registered
EmitHandlers == Listeners(LastOp.before, LastOp.eventName)

\* C13: when a handler throws during emit, handlers registered before it
\* having returned, the exception leaves emit, the handlers registered after
\* it are not invoked and the throwing handler is not invoked again.
C13_ThrowPropagates ==
    (pc = "api" /\ busOps # << >> /\ LastOp.op = "emit") =>
        \A i \in 1..Len(EmitHandlers) :
            (EmitHandlers[i] = "hThrow"
                /\ \A j \in 1..(i - 1) : EmitHandlers[j] = "h1") =>
                /\ LastOp.ret = "threw"
                /\ calls = [k \in 1..i |-> << EmitHandlers[k], LastOp.position >>]

\* C13 witness: an emit whose first handler threw, another handler being
\* registered after it.
C13_Witness ==
    /\ pc = "api"
    /\ busOps # << >>
    /\ LastOp.op = "emit"
    /\ Len(EmitHandlers) >= 2
    /\ EmitHandlers[1] = "hThrow"
    /\ EmitHandlers[2] = "h1"
    /\ LastOp.ret = "threw"

\* Both components of a position are within [-1, 1] (in hundredths)
InRange(position) ==
    /\ position.x \in -100..100
    /\ position.y \in -100..100

\* C14: for every pixel within the viewport the position calculateMovement
\* computes has both components in [-1, 1], and so has every payload of
\* 'init' and 'mousemove'.
C14_NormalizedInRange ==
    pc = "calc" =>
        /\ InRange(mousePosition)
        /\ InRange(lastEmit.position)
        /\ \A i \in 1..Len(busOps) : InRange(busOps[i].ret)

\* C14 witness: 'mousemove' was emitted for a pointer in the top right
\* corner of the viewport, after one at another place.
C14_Witness ==
    /\ Moved
    /\ Len(busOps) = 2
    /\ LastOp.x = viewport.w
    /\ LastOp.y = 0
    /\ lastEmit.name = "mousemove"
    /\ lastEmit.position = [x |-> 100, y |-> -100]

\* C15: calculateMovement maps the pixel (0,0) to (-1,-1), the pixel (W,H)
\* to (1,1) and, when W and H are even, the pixel (W/2,H/2) to (0,0).
C15_CornersAndCentre ==
    Moved =>
        /\ (LastOp.x = 0 /\ LastOp.y = 0) =>
              mousePosition = [x |-> -100, y |-> -100]
        /\ (LastOp.x = viewport.w /\ LastOp.y = viewport.h) =>
              mousePosition = [x |-> 100, y |-> 100]
        /\ (viewport.w % 2 = 0 /\ viewport.h % 2 = 0
                /\ 2 * LastOp.x = viewport.w /\ 2 * LastOp.y = viewport.h) =>
              mousePosition = [x |-> 0, y |-> 0]

\* C15 witness: the centre of a 1920x1080 viewport after its bottom right
\* corner.
C15_Witness ==
    /\ Moved
    /\ viewport = [w |-> 1920, h |-> 1080]
    /\ Len(busOps) = 2
    /\ busOps[1].x = 1920 /\ busOps[1].y = 1080
    /\ busOps[1].ret = [x |-> 100, y |-> 100]
    /\ LastOp.x = 960 /\ LastOp.y = 540
    /\ mousePosition = [x |-> 0, y |-> 0]

\* C16: each component of a published position is a whole number of
\* hundredths nearest to 2 * pixel / dimension - 1.
C16_RoundedToHundredths ==
    Moved =>
        /\ lastEmit.name = "mousemove"
        /\ lastEmit.position = mousePosition
        /\ Nearest(lastEmit.position.x, 200 * LastOp.x - 100 * viewport.w, viewport.w)
        /\ Nearest(lastEmit.position.y, 200 * LastOp.y - 100 * viewport.h, viewport.h)

\* C16 witness: 9/16 of the width is 0.125, published as 0.13, and 7/16 of
\* the height -0.125, published as -0.13.
C16_Witness ==
    /\ Moved
    /\ viewport = [w |-> 16, h |-> 16]
    /\ LastOp.x = 9 /\ LastOp.y = 7
    /\ lastEmit.position = [x |-> 13, y |-> -13]

\* C17: two pointer events at the same pixel of the same viewport give the
\* same position, whatever position was computed before each.
C17_SameInputSamePosition ==
    (Moved /\ Len(busOps) = 2
        /\ busOps[1].x = busOps[2].x /\ busOps[1].y = busOps[2].y) =>
        busOps[1].ret = busOps[2].ret

\* C17 witness: the same pixel twice, away from the centre, the first time
\* with another position kept than the second time.
C17_Witness ==
    /\ Moved
    /\ Len(busOps) = 2
    /\ busOps[1].x = busOps[2].x /\ busOps[1].y = busOps[2].y
    /\ busOps[2].ret # [x |-> 0, y |-> 0]
    /\ hostMoves = 2

\* C18: the background target is the nearest integer to x * 75 / 100 * W
\* (y * 75 / 100 * H), negated: opposite to the pointer offset; 0.4 at a
\* width of 1920 gives -576.  The setters receive the target.
C18_BackgroundTarget ==
    Moved =>
        LET x == lastEmit.position.x
            y == lastEmit.position.y
        IN  /\ Nearest(-bg.targetBackgroundX, x * 75 * viewport.w, 10000)
            /\ Nearest(-bg.targetBackgroundY, y * 75 * viewport.h, 10000)
            /\ x * bg.targetBackgroundX <= 0
            /\ y * bg.targetBackgroundY <= 0
            /\ (x = 40 /\ viewport.w = 1920) => bg.targetBackgroundX = -576
            /\ bg.setX = bg.targetBackgroundX
            /\ bg.setY = bg.targetBackgroundY

\* C18 witness: the pointer at 0.4 of a 1920 wide viewport, the target -576.
C18_Witness ==
    /\ Moved
    /\ viewport.w = 1920
    /\ lastEmit.position.x = 40
    /\ bg.targetBackgroundX = -576
    /\ bg.setX = -576

\* C19: the bootstrap overlay is attached only between the construction of
\* the tracker and the first bootstrap settlement: not before construction,
\* attached until 'mouseenter' or the timer has fired, and from then on
\* removed (overlayElement null) for good.
C19_OverlayLifetime ==
    /\ pc = "mouseTracker" => overlayElement = "null"
    /\ (havePointer /\ TrackerConstructed /\ initSources = << >>) =>
          overlayElement = "attached"
    /\ initSources # << >> => overlayElement = "null"

\* C19 witness: 'mouseenter' settled the bootstrap, later the timer fired as
\* well and 'pointermove' events went on; the overlay is gone.
C19_Witness ==
    /\ havePointer
    /\ pc = "running"
    /\ Len(initSources) = 2
    /\ initSources[1] = "mouseenter"
    /\ ~timerPending
    /\ hostMoves >= 1
    /\ overlayElement = "null"

\* C20: without pointer capability the tracker never creates the overlay,
\* never starts the bootstrap timer (none is pending, none has fired) and
\* never attaches the 'pointermove' listener.
C20_NoPointerNoBootstrap ==
    ~havePointer =>
        /\ overlayElement = "null"
        /\ ~timerPending
        /\ ~moveListener
        /\ \A i \in 1..Len(initSources) : initSources[i] = "constructor"

\* C20 witness: a page without pointer capability, loaded, to whose window
\* the host has dispatched a 'pointermove'.
C20_Witness ==
    /\ ~havePointer
    /\ pc = "running"
    /\ hostMoves = 1
    /\ overlayElement = "null"
    /\ ~timerPending
    /\ ~moveListener

\* C21: a position delivered to a handler is an immutable value: x and y as
\* the handler saw them stay what they were when later pointer events are
\* processed, and a handler that writes to the payload changes neither the
\* tracker's position nor what the other handlers of the emit receive.
C21_PayloadImmutable ==
    (pc = "calc" /\ kept.held) =>
        /\ Deref(World, kept.payload) = kept.seen
        /\ mousePosition = calculateMovement(LastOp.x, LastOp.y, viewport)
        /\ \A i \in DOMAIN calls :
              calls[i][2] = calculateMovement(LastOp.x, LastOp.y, viewport)

\* The background consumer's constructor has returned
BackgroundConstructed == pc \in { "parallaxMouse", "running" }

\* C22: when the wrapper or the background element is absent, constructing
\* the background consumer completes with a warning logged and nothing else
\* done: no setter, no 'init' subscription, no 'mousemove' subscription and
\* no registration with the Visibility Gate, then or later.
C22_AbsentTargetNoOp ==
    (BackgroundConstructed /\ ~(dom.wrapper /\ dom.background)) =>
        /\ bg.warned
        /\ ~bg.setter
        /\ ~bg.observing
        /\ ~Includes(Listeners(events, "init"), "setStartPosition")
        /\ ~Includes(Listeners(events, "mousemove"), "onMouseMove")
        /\ bg.initCalls = 0

\* The page without a wrapper runs on, pointer events included
C22_Witness ==
    /\ pc = "running"
    /\ ~dom.wrapper
    /\ bg.warned
    /\ movesEmitted > 0

\* The last operation invoked a handler of the follow consumer
FollowRan ==
    \E i \in DOMAIN calls :
        calls[i][1] \in { "animateVisibleElements_init",
                          "animateVisibleElements_mousemove" }

\* C23: the follow consumer calls the setters of those elements only whose
\* most recent Visibility Gate report is intersecting: in every step an
\* element whose last report is non-intersecting, or that has had no report,
\* keeps its target and is not among the elements the handler animated.
C23_OnlyVisibleAnimated ==
    [][\A el \in Elements :
          mp.lastReport[el] # "intersecting" =>
              /\ mp'.target[el] = mp.target[el]
              /\ FollowRan' => el \notin mp'.animated]_vars

\* An event handled with one element in view and the other reported out of
\* view after it had been animated
C23_Witness ==
    /\ FollowRan
    /\ mp.animated = { "el1" }
    /\ mp.lastReport["el2"] = "hidden"
    /\ mp.target["el2"].set
    /\ mp.target["el1"] # mp.target["el2"]

\* C24: for the position (x, y) the follow consumer receives, the target
\* applied to each visible element is (x * 20, y * 20) pixels, of the same
\* sign as the position.
C24_FollowTarget ==
    FollowRan =>
        \A el \in mp.animated :
            /\ mp.target[el] = [set |-> TRUE, x |-> 20 * lastEmit.position.x,
                                y |-> 20 * lastEmit.position.y]
            /\ mp.target[el].x * lastEmit.position.x >= 0
            /\ mp.target[el].y * lastEmit.position.y >= 0

\* A pointer left of the centre at mid height moves both elements left only
C24_Witness ==
    /\ FollowRan
    /\ mp.animated = Elements
    /\ lastEmit.position.x < 0
    /\ lastEmit.position.y = 0
    /\ \A el \in Elements : mp.target[el].x < 0 /\ mp.target[el].y = 0

\* C25: a displacement consumer registers with the Visibility Gate only
\* after it has received 'init': before its init handler has run it observes
\* no element, is not subscribed to 'mousemove' and has applied no target.
C25_GateAfterInit ==
    /\ bg.initCalls = 0 =>
          /\ ~bg.observing
          /\ ~Includes(Listeners(events, "mousemove"), "onMouseMove")
          /\ bg.setX = 0 /\ bg.setY = 0
    /\ mp.initCalls = 0 =>
          /\ mp.observing = {}
          /\ ~Includes(Listeners(events, "mousemove"),
                       "animateVisibleElements_mousemove")
          /\ \A el \in Elements : ~mp.target[el].set

\* The number of times h occurs in the handler sequence l
Occurrences(l, h) == Cardinality({ i \in DOMAIN l : l[i] = h })

\* C26: whatever entries the Visibility Gate delivers, two equal ones in a
\* row included, the background consumer's movement handler is registered
\* on 'mousemove' at most once, and one 'mousemove' emit invokes it at most
\* once.
C26_MovementHandlerOnce ==
    /\ Occurrences(Listeners(events, "mousemove"), "onMouseMove") <= 1
    /\ Occurrences([i \in DOMAIN calls |-> calls[i][1]], "onMouseMove") <= 1

\* A second intersecting entry in a row, then a pointer event that reaches
\* the movement handler
C26_Witness ==
    /\ Len(busOps) = 2
    /\ busOps[1].op = "entry"
    /\ busOps[1].isIntersecting
    /\ busOps[1].previous = "intersecting"
    /\ busOps[2].op = "pointermove"
    /\ Occurrences([i \in DOMAIN calls |-> calls[i][1]], "onMouseMove") = 1

\* The last operation was a 'mousemove' emit that reached the background
\* consumer's movement handler
HandledMove == Occurrences([i \in DOMAIN calls |-> calls[i][1]], "onMouseMove") > 0

\* C27: the background consumer's target corresponds to the most recent
\* position it has handled: when the delayed start-position step (the 750 ms
\* timer set by the init handler) runs after a 'mousemove' has been handled,
\* it leaves the target and the values given to the setters as they are.
C27_TimerKeepsLatest ==
    [][(HandledMove /\ startTimers # << >> /\ startTimers' = Tail(startTimers)) =>
          /\ bg'.targetBackgroundX = bg.targetBackgroundX
          /\ bg'.targetBackgroundY = bg.targetBackgroundY
          /\ bg'.setX = bg.setX
          /\ bg'.setY = bg.setY]_vars

\* The invocations a walk over handlers makes when every handler is called
\* once, in order: a oneTimeListener is followed by its callback
RECURSIVE Walk(_)
Walk(handlers) ==
    IF handlers = << >> THEN << >>
    ELSE (IF Head(handlers) \in OneTimeListeners
          THEN << Head(handlers), ClosureOf(Head(handlers)).callback >>
          ELSE << Head(handlers) >>) \o Walk(Tail(handlers))

\* C28: emit dispatches over the handler list as it is when the emit starts:
\* a handler that an earlier handler removed during the emit (by off, by
\* toggle, or a once handler removing itself) is still invoked, and a handler
\* added during the emit is not invoked before the next emit.
C28_SnapshotDispatch ==
    (pc = "api" /\ busOps # << >> /\ LastOp.op = "emit"
        /\ LastOp.ret # "threw") =>
        [i \in DOMAIN calls |-> calls[i][1]] = Walk(EmitHandlers)

\* An emit whose first handler took the second one off the list
C28_Witness ==
    /\ pc = "api"
    /\ busOps # << >>
    /\ LastOp.op = "emit"
    /\ EmitHandlers = << "hOff", "h1" >>
    /\ Len(calls) = 2
    /\ calls[2][1] = "h1"
    /\ ~Registered("init", "h1")

\* The position of a recorded pointer event, normalized against the window's
\* dimensions at that event
Normalized(o) == calculateMovement(o.x, o.y, o.viewport)

\* C29: when the bootstrap timer settles and no 'mouseenter' of the overlay
\* came before it, the payload of 'init' is (0, 0) if no pointer-move event
\* was processed since construction, and the normalized position of the most
\* recent pointer-move event otherwise.
C29_TimerInitPayload ==
    (lastEmit.name = "init" /\ initSources = << "timeout" >>) =>
        /\ lastEmit.position = IF busOps = << >> THEN [x |-> 0, y |-> 0]
                               ELSE Normalized(LastOp)
        /\ calls = << << "animateVisibleElements_init", lastEmit.position >> >>

\* The timer settled after two pointer events with different positions
C29_Witness ==
    /\ lastEmit.name = "init"
    /\ initSources = << "timeout" >>
    /\ Len(busOps) = 2
    /\ Normalized(busOps[1]) # Normalized(busOps[2])
    /\ lastEmit.position = Normalized(busOps[2])

\* C30: each pointer-move event a tracker with pointer capability processes
\* produces exactly one 'mousemove' emit, whose payload is the event's
\* position normalized against the window's dimensions at that event: a
\* resize between two events changes the result of the second only.
C30_OneEmitPerMove ==
    /\ movesEmitted = hostMoves
    /\ \A i \in DOMAIN busOps : busOps[i].ret = Normalized(busOps[i])
    /\ lastEmit.name = "mousemove" =>
          /\ busOps # << >>
          /\ lastEmit.position = Normalized(LastOp)
          /\ calls = << << "animateVisibleElements_mousemove", Normalized(LastOp) >> >>

\* Two events at the same pixel with a resize between them
C30_Witness ==
    /\ Len(busOps) = 2
    /\ busOps[1].x = busOps[2].x
    /\ busOps[1].y = busOps[2].y
    /\ busOps[1].viewport # busOps[2].viewport
    /\ busOps[1].ret # busOps[2].ret
    /\ movesEmitted = 2
    /\ lastEmit = [name |-> "mousemove", position |-> busOps[2].ret, ret |-> TRUE]

\* C31: without pointer capability no consumer is ever subscribed to
\* 'mousemove': the background consumer does not register with the
\* Visibility Gate and the follow consumer is not constructed, whatever
\* events the host delivers.
C31_NoPointerNoMovement ==
    ~havePointer =>
        /\ Listeners(events, "mousemove") = << >>
        /\ ~bg.observing
        /\ bg.lastReport = "none"
        /\ mp.observing = {}
        /\ ~Registered("init", "animateVisibleElements_init")

\* The page without a pointer, on a full document, after the host has
\* delivered pointer events
C31_Witness ==
    /\ ~havePointer
    /\ pc = "running"
    /\ dom.wrapper /\ dom.background /\ dom.elements # {}
    /\ hostMoves = MaxMoves
    /\ Registered("init", "setStartPosition")

\* C32: on, off, toggle and once applied to an event name leave the handler
\* sequence of every other event name as it was; toggling or removing a
\* 'mousemove' handler neither removes nor reorders the 'init' handlers.
C32_OtherNamesUntouched ==
    (pc = "api" /\ busOps # << >>
        /\ LastOp.op \in { "on", "off", "toggle", "once" }) =>
        \A e \in EventNames \ { LastOp.eventName } :
            Listeners(events, e) = Listeners(LastOp.before, e)

\* A 'mousemove' handler taken off while 'init' holds the same handler
C32_Witness ==
    /\ pc = "api"
    /\ busOps # << >>
    /\ LastOp.op \in { "off", "toggle" }
    /\ LastOp.eventName = "mousemove"
    /\ Includes(Listeners(LastOp.before, "mousemove"), LastOp.callback)
    /\ Listeners(events, "mousemove") = << >>
    /\ Listeners(events, "init") = << LastOp.callback >>

\* The handlers the last operation invoked, in order
Invoked == [i \in DOMAIN calls |-> calls[i][1]]

\* C33: each on(e, h) adds one registration of h, behind those there are;
\* one emit(e) invokes h once per registration; one off(e, h) removes every
\* registration of h and keeps the other handlers in their order.
C33_RepeatedRegistration ==
    (pc = "client" /\ busOps # << >>) =>
        LET h == LastOp.callback
            was == Listeners(LastOp.before, LastOp.eventName)
            now == Listeners(events, LastOp.eventName)
            Other(x) == x # h
        IN  /\ LastOp.op = "on" =>
                  /\ now = Append(was, h)
                  /\ Occurrences(now, h) = Occurrences(was, h) + 1
            /\ LastOp.op = "emit" =>
                  \A c \in RepeatHandlers \cup ClientHandlers :
                      Occurrences(Invoked, c) = Occurrences(was, c)
            /\ LastOp.op = "off" =>
                  /\ Occurrences(now, h) = 0
                  /\ now = SelectSeq(was, Other)

\* Two registrations of h1 around h3, and the off that removes both
C33_Witness ==
    /\ pc = "client"
    /\ busOps # << >>
    /\ LastOp.op = "off"
    /\ Listeners(LastOp.before, "init") = << "h1", "h3", "h1" >>
    /\ LastOp.callback = "h1"
    /\ Listeners(events, "init") = << "h3" >>

\* The call before the last one
PreviousOp == busOps[1]

\* C34: off(e, h) where e was never subscribed, or where h is not registered
\* for e, returns without an exception and leaves every handler list as it
\* was, so that a later emit invokes the handlers it would have invoked.
C34_OffAbsentNoOp ==
    (pc = "client" /\ busOps # << >>) =>
        /\ (LastOp.op = "off"
              /\ ~Includes(Listeners(LastOp.before, LastOp.eventName),
                           LastOp.callback)) =>
                /\ LastOp.ret = "this"
                /\ \A e \in EventNames :
                      Listeners(events, e) = Listeners(LastOp.before, e)
        /\ (Len(busOps) = 2 /\ PreviousOp.op = "off" /\ LastOp.op = "emit"
              /\ ~Includes(Listeners(PreviousOp.before, PreviousOp.eventName),
                           PreviousOp.callback)) =>
                Invoked = Listeners(PreviousOp.before, LastOp.eventName)

\* off of a handler that is not on the list, h1 being there, then an emit
C34_Witness ==
    /\ pc = "client"
    /\ Len(busOps) = 2
    /\ PreviousOp.op = "off"
    /\ PreviousOp.callback = "h2"
    /\ Listeners(PreviousOp.before, PreviousOp.eventName) = << "h1" >>
    /\ "mousemove" \notin DOMAIN events
    /\ LastOp.op = "emit"
    /\ LastOp.eventName = PreviousOp.eventName
    /\ Invoked = << "h1" >>

\* The once wrappers of callback h on the list l
WrappersOf(l, h) ==
    { i \in DOMAIN l : l[i] \in OneTimeListeners /\ ClosureOf(l[i]).callback = h }

\* C35: once(e, h) registers h under a wrapper, which off(e, h) and
\* toggle(e, h) called with h itself do not remove (toggle adds a plain
\* registration of h when there is none), so that the next emit(e) still
\* invokes h through the wrapper.
C35_OnceWrapperStays ==
    (pc = "api" /\ busOps # << >>) =>
        LET h == LastOp.callback
            was == Listeners(LastOp.before, LastOp.eventName)
            now == Listeners(events, LastOp.eventName)
            Other(x) == x # h
        IN  /\ LastOp.op = "once" =>
                  /\ Len(now) = Len(was) + 1
                  /\ WrappersOf(now, h) = WrappersOf(was, h) \cup { Len(now) }
            /\ LastOp.op = "off" => now = SelectSeq(was, Other)
            /\ LastOp.op = "toggle" =>
                  now = IF Occurrences(was, h) = 0 THEN Append(was, h)
                        ELSE SelectSeq(was, Other)
            /\ LastOp.op \in { "off", "toggle" } =>
                  Cardinality(WrappersOf(now, h)) = Cardinality(WrappersOf(was, h))
            /\ LastOp.op = "emit" =>
                  \A c \in ClientHandlers :
                      Occurrences(Invoked, c)
                          = Occurrences(was, c) + Cardinality(WrappersOf(was, c))

\* h1 registered by once, then toggled: the wrapper and a plain h1 are on the
\* list, and an emit invokes h1 twice
C35_Witness ==
    /\ pc = "api"
    /\ busOps # << >>
    /\ LastOp.op = "emit"
    /\ Len(EmitHandlers) = 2
    /\ WrappersOf(EmitHandlers, "h1") = { 1 }
    /\ EmitHandlers[2] = "h1"
    /\ Invoked = << EmitHandlers[1], "h1", "h1" >>
    /\ Listeners(events, "init") = << "h1" >>

\* The last entry of a delivery
LastEntry(entries) == entries[Len(entries)]

\* C36: the Visibility Gate invokes the consumer's callback exactly once for
\* each entry the host observer delivers, in delivery order and with that
\* entry; it goes on observing and changes nothing of the consumer itself:
\* what changes is what the callback changes.
C36_GatePassesEntries ==
    [][(calls' # << >> /\ calls'[1][1] = "onIntersection") =>
          LET entries == busOps'[Len(busOps')].entries
          IN  /\ calls' = [i \in DOMAIN entries |-> << "onIntersection", entries[i] >>]
              /\ mp'.observing = mp.observing
              /\ mp'.lastReport =
                    [mp.lastReport EXCEPT ![LastEntry(entries).target] =
                        Report(LastEntry(entries).isIntersecting)]
              /\ mp'.visibleElements =
                    IF LastEntry(entries).isIntersecting
                    THEN mp.visibleElements \cup { LastEntry(entries).target }
                    ELSE mp.visibleElements \ { LastEntry(entries).target }
              /\ mp'.target = mp.target /\ mp'.animated = mp.animated
              /\ events' = events /\ bg' = bg]_vars

\* A delivery of two entries for el2, in view and then out of view, el1
\* being in view and animated
C36_Witness ==
    /\ Len(calls) = 2
    /\ calls[1] = << "onIntersection", [target |-> "el2", isIntersecting |-> TRUE] >>
    /\ calls[2] = << "onIntersection", [target |-> "el2", isIntersecting |-> FALSE] >>
    /\ mp.lastReport["el2"] = "hidden"
    /\ mp.visibleElements = { "el1" }
    /\ mp.target["el1"].set

\* C37: in the frame-based smoothing consumer at most one animation-frame
\* continuation is pending at any moment, and it is the one the consumer
\* holds the handle of: every call of animateBackgroundMovement, from a
\* mouse-move or from a frame callback, leaves none of the callbacks that
\* were pending before it.
C37_OnePendingFrame ==
    /\ [](Cardinality(smoothing.frames) <= 1)
    /\ [](smoothing.frames \subseteq { smoothing.animationFrameId })
    /\ [][smoothing' # smoothing =>
            smoothing'.frames \cap smoothing.frames = {}]_vars

\* A second mouse-move while a frame is pending: that frame is cancelled and
\* another one requested
C37_Witness ==
    /\ hostMoves = 2
    /\ smoothing.frames = { 2 }
    /\ smoothing.animationFrameId = 2

\* The background within stopThreshold of its target on both axes
AtTarget ==
    /\ ~stillMoving(smoothing.targetBackgroundX - smoothing.currentBackgroundX)
    /\ ~stillMoving(smoothing.targetBackgroundY - smoothing.currentBackgroundY)

\* C38: once the mouse-move events stop, the smoothing loop terminates:
\* after finitely many frames the background is within the stop threshold
\* of the target on both axes and no animation frame is requested any more.
C38_LoopTerminates == <>[](AtTarget /\ smoothing.frames = {})

\* The loop at rest away from the origin, after frames have run
C38_Witness ==
    /\ hostMoves > 0
    /\ smoothing.targetBackgroundX # 0
    /\ AtTarget
    /\ smoothing.frames = {}
    /\ smoothing.animationFrameId # 0

\* The sources of the 'init' events emitted after the first i of them
LaterSources(i) == { initSources[j] : j \in (i + 1)..Len(initSources) }

\* C39: once the bootstrap timer has settled, the overlay's 'mouseenter'
\* source is disarmed: the overlay is detached, and no 'init' comes from a
\* pointer-enter after one that came from the timer; the 'mouseenter'
\* listener runs at most once per tracker.
C39_TimerDisarmsMouseEnter ==
    /\ \A i \in DOMAIN initSources :
           initSources[i] = "timeout" =>
               /\ overlayElement = "null"
               /\ "mouseenter" \notin LaterSources(i)
    /\ Occurrences(initSources, "mouseenter") <= 1

\* The timer settled the bootstrap and pointer events went on arriving
C39_Witness ==
    /\ initSources = << "timeout" >>
    /\ overlayElement = "null"
    /\ ~timerPending
    /\ movesEmitted > 0

====
